---- MODULE Spec2Model ----
(***************************************************************************)
(* Model of spine-to-godot-scene.py: build_tree assembles a MainNode from  *)
(* Spine json files and main prints its rendering.  Strings are sequences  *)
(* of code points, so that sorting, replacing and comparing work as they   *)
(* do in the script.                                                       *)
(***************************************************************************)
EXTENDS Integers, Sequences, FiniteSets, TLC

VARIABLES args, pc, file_i, ext_resources, sub_resources, children,
          animation_player, load_steps, out, second, prevOut

vars == <<args, pc, file_i, ext_resources, sub_resources, children,
          animation_player, load_steps, out, second, prevOut>>

\* ------------------------------------------------------------------ bounds
MaxFiles == 3

MaxPlayers == 2

\* ----------------------------------------------------------------- strings
\* str.replace(old, new): leftmost, non-overlapping occurrences
RECURSIVE Replace(_, _, _)
Replace(s, old, new) ==
    IF Len(s) < Len(old) THEN s
    ELSE IF SubSeq(s, 1, Len(old)) = old
         THEN new \o Replace(SubSeq(s, Len(old) + 1, Len(s)), old, new)
         ELSE <<Head(s)>> \o Replace(Tail(s), old, new)

\* os.path.basename: what follows the last "/" (code point 47)
RECURSIVE Basename(_)
Basename(p) ==
    IF \E k \in 1..Len(p) : p[k] = 47
    THEN Basename(Tail(p))
    ELSE p

\* a < b on str: code point by code point, a proper prefix is smaller
RECURSIVE StrLess(_, _)
StrLess(a, b) ==
    IF b = <<>> THEN FALSE
    ELSE IF a = <<>> THEN TRUE
    ELSE IF Head(a) # Head(b) THEN Head(a) < Head(b)
    ELSE StrLess(Tail(a), Tail(b))

\* ".json", ".", "_"
DotJson == <<46, 106, 115, 111, 110>>

\* 'spine_{}'.format(base_name)
SpineNodeName(json_file) ==
    <<115, 112, 105, 110, 101, 95>>
        \o Replace(Replace(Basename(json_file), DotJson, <<>>), <<46>>, <<95>>)

\* '{node_name}__{resource_name}'
PlayResourceName(node_name, resource_name) ==
    node_name \o <<95, 95>> \o resource_name

\* '{node_name}__skin__{resource_name}'
SkinResourceName(node_name, resource_name) ==
    node_name \o <<95, 95, 115, 107, 105, 110, 95, 95>> \o resource_name

\* ------------------------------------------------------------- the inputs
\* animation and skin names: "idle", "walk", "default", "blue"
Idle == <<105, 100, 108, 101>>

Walk == <<119, 97, 108, 107>>

Default == <<100, 101, 102, 97, 117, 108, 116>>

Blue == <<98, 108, 117, 101>>

\* The files a command line can name: what open() and json.load() give for
\* each.  animations and skins list the keys of the two mappings in the
\* order of the file; has_animations / has_skins say whether the key exists.
JsonFiles == <<
    \* a.json
    [path |-> <<97>> \o DotJson, exists |-> TRUE,
     has_animations |-> TRUE, animations |-> <<Idle>>,
     has_skins |-> TRUE, skins |-> <<Default>>],
    \* b.json, an empty animations mapping
    [path |-> <<98>> \o DotJson, exists |-> TRUE,
     has_animations |-> TRUE, animations |-> <<>>,
     has_skins |-> TRUE, skins |-> <<Default, Blue>>],
    \* a.b.json
    [path |-> <<97, 46, 98>> \o DotJson, exists |-> TRUE,
     has_animations |-> TRUE, animations |-> <<Walk, Idle>>,
     has_skins |-> TRUE, skins |-> <<Default>>],
    \* c.json, an empty skins mapping
    [path |-> <<99>> \o DotJson, exists |-> TRUE,
     has_animations |-> TRUE, animations |-> <<Idle>>,
     has_skins |-> TRUE, skins |-> <<>>],
    \* d/a.json, same basename as a.json
    [path |-> <<100, 47, 97>> \o DotJson, exists |-> TRUE,
     has_animations |-> TRUE, animations |-> <<Idle>>,
     has_skins |-> TRUE, skins |-> <<Default>>],
    \* x.json does not exist
    [path |-> <<120>> \o DotJson, exists |-> FALSE,
     has_animations |-> FALSE, animations |-> <<>>,
     has_skins |-> FALSE, skins |-> <<>>],
    \* y.json has no "animations" key
    [path |-> <<121>> \o DotJson, exists |-> TRUE,
     has_animations |-> FALSE, animations |-> <<>>,
     has_skins |-> TRUE, skins |-> <<Default>>],
    \* z.json has no "skins" key
    [path |-> <<122>> \o DotJson, exists |-> TRUE,
     has_animations |-> TRUE, animations |-> <<Idle>>,
     has_skins |-> FALSE, skins |-> <<>>] >>

\* -s: None (the empty value) or "s.gd"
NoScript == <<>>

ScriptPath == <<115, 46, 103, 100>>

\* -e: None, a readable file holding index="{index}", or a missing file
ExtraChoices == {"none", "readable", "missing"}

\* argument lists docopt can hand to main: one or more json files
ArgsSet ==
    { [json |-> j, e |-> e, s |-> s] :
        j \in UNION { [1..n -> 1..Len(JsonFiles)] : n \in 1..MaxFiles },
        e \in ExtraChoices,
        s \in {NoScript, ScriptPath} }

JsonFile(k) == JsonFiles[args.json[k]]

\* --------------------------------------------------------------- MainNode
\* add_ext_resource as it would be if a path were registered only once
add_ext_resource_once(exts, resource_path, resource_type) ==
    IF \E k \in DOMAIN exts : exts[k].resource_path = resource_path
    THEN exts
    ELSE Append(exts, [resource_path |-> resource_path,
                       resource_type |-> resource_type, i |-> 0])

\* add_ext_resource: self.ext_resources.append(ExtResource(...)), i = None (0)
add_ext_resource(exts, resource_path, resource_type) ==
    Append(exts, [resource_path |-> resource_path,
                  resource_type |-> resource_type, i |-> 0])

\* MainNode.__init__: empty lists, the script registered first if given
InitExtResources(script) ==
    IF script # NoScript THEN add_ext_resource(<<>>, script, "Script") ELSE <<>>

\* SubResourceSpineSkin.add_track: tracks/{i} with i = len(self.tracks)
add_track(tracks, node_name, base_resource_name) ==
    Append(tracks, [i |-> Len(tracks), node_name |-> node_name,
                    value |-> base_resource_name])

\* SubResourceSpinePlay(resource_name=..., node_name=...)
SubResourceSpinePlay(resource_name, node_name) ==
    [type |-> "play", base_resource_name |-> resource_name,
     node_name |-> node_name, i |-> 0,
     resource_name |-> PlayResourceName(node_name, resource_name),
     tracks |-> <<>>]

\* SubResourceSpineSkin(resource_name=..., node_name=...): its own track first
SubResourceSpineSkin(resource_name, node_name) ==
    [type |-> "skin", base_resource_name |-> resource_name,
     node_name |-> node_name, i |-> 0,
     resource_name |-> SkinResourceName(node_name, resource_name),
     tracks |-> add_track(<<>>, node_name, resource_name)]

\* the two loops of add_spine_child over json_data[...].keys()
RECURSIVE AddPlays(_, _, _)
AddPlays(subs, names, node_name) ==
    IF names = <<>> THEN subs
    ELSE AddPlays(Append(subs, SubResourceSpinePlay(Head(names), node_name)),
                  Tail(names), node_name)

RECURSIVE AddSkins(_, _, _)
AddSkins(subs, names, node_name) ==
    IF names = <<>> THEN subs
    ELSE AddSkins(Append(subs, SubResourceSpineSkin(Head(names), node_name)),
                  Tail(names), node_name)

\* ext_resource_i as it would be if taken before the file was added
SpineExtResourceI_before(exts) == Len(exts) - 1

\* child.ext_resource_i = len(self.ext_resources), after the file was added
SpineExtResourceI(exts) == Len(exts)

\* a lookup of 'skins' that falls back to no skins instead of raising
RaisesNoSkins_never(f) == FALSE

\* json_data['animations'] / json_data['skins'] raise KeyError without the key
RaisesNoAnimations(f) == ~f.has_animations

RaisesNoSkins(f) == ~f.has_skins

\* SpineNode(name=node_name, parent='.', index=index)
SpineNode(name, index, ext_resource_i) ==
    [type |-> "Spine", name |-> name, index |-> index,
     ext_resource_i |-> ext_resource_i, animations |-> <<>>]

\* ExtraNode(data=data.format(index=...)): the text keeps only its index
ExtraIndex(chs) == Len(chs)

ExtraNode(index) ==
    [type |-> "Extra", name |-> <<>>, index |-> index,
     ext_resource_i |-> 0, animations |-> <<>>]

\* the player's index as it would be if counted from 1
PlayerIndex_from1(chs) == Len(chs) + 1

\* AnimationPlayerNode(name='animation', parent='.', index=index)
PlayerIndex(chs) == Len(chs)

AnimationPlayerNode(index) ==
    [type |-> "AnimationPlayer",
     name |-> <<97, 110, 105, 109, 97, 116, 105, 111, 110>>,
     index |-> index, ext_resource_i |-> 0, animations |-> <<>>]

\* sorted(self.sub_resources, key=attrgetter('resource_name')): the positions
\* of the sub-resources in sorted order; sorted() is stable, so of two equal
\* names the one created first comes first
RECURSIVE InsertByName(_, _, _)
InsertByName(order, p, subs) ==
    IF order = <<>> THEN <<p>>
    ELSE IF StrLess(subs[p].resource_name, subs[Head(order)].resource_name)
         THEN <<p>> \o order
         ELSE <<Head(order)>> \o InsertByName(Tail(order), p, subs)

RECURSIVE SortPrefix(_, _)
SortPrefix(subs, n) ==
    IF n = 0 THEN <<>> ELSE InsertByName(SortPrefix(subs, n - 1), n, subs)

SortedByName(subs) == SortPrefix(subs, Len(subs))

\* enumerate() counts from 0 and the ids are 1-based: i + 1
OneBased(i) == i + 1

\* nodes_with_skins = set(skin.node_name for skin in spine_skins)
NodesWithSkins(subs) ==
    { subs[p].node_name : p \in { q \in DOMAIN subs : subs[q].type = "skin" } }

\* the orders in which a for loop can walk a set of str: the order follows
\* the hashes of the strings, which are salted anew for every process
IterationOrders(S) ==
    { o \in [1..Cardinality(S) -> S] :
        \A a, b \in 1..Cardinality(S) : a # b => o[a] # o[b] }

\* for node_name in nodes_with_skins: if skin.node_name != node_name: add_track
RECURSIVE AddOtherTracks(_, _)
AddOtherTracks(skin, order) ==
    IF order = <<>> THEN skin
    ELSE AddOtherTracks(
            IF skin.node_name # Head(order)
            THEN [skin EXCEPT !.tracks =
                      add_track(@, Head(order), skin.base_resource_name)]
            ELSE skin,
            Tail(order))

\* the player's list as it would be with the 0-based i recorded
PlayerEntries_from0(subs) ==
    LET order == SortedByName(subs)
    IN  [k \in DOMAIN order |-> <<k - 1, order[k]>>]

\* self.animation_player.animations.append((i + 1, sub_resource)) for every
\* sub-resource in sorted order; a sub-resource is named by its position in
\* self.sub_resources
PlayerEntries(subs) ==
    LET order == SortedByName(subs)
    IN  [k \in DOMAIN order |-> <<OneBased(k - 1), order[k]>>]

\* load_steps as it would be without the 1 for the root
LoadSteps_noself(exts, subs) == Len(exts) + Len(subs)

\* set_load_steps: the last 1 is our self
LoadSteps(exts, subs) == Len(exts) + Len(subs) + 1

\* MainNode.__str__, first loop: ext_resource.i = i + 1
NumberedExtResources(exts) ==
    [k \in DOMAIN exts |-> [exts[k] EXCEPT !.i = OneBased(k - 1)]]

\* MainNode.__str__, second loop: sub_resource.i = i + 1 in sorted order
NumberedSubResources(subs) ==
    LET order == SortedByName(subs)
    IN  [p \in DOMAIN subs |->
            [subs[p] EXCEPT !.i =
                OneBased((CHOOSE k \in DOMAIN order : order[k] = p) - 1)]]

\* str(child): what the block of a child shows.  The player prints one
\* anims/{name} = SubResource( {i} ) line per entry of its list
ChildBlock(child, subs) ==
    [type |-> child.type, name |-> child.name, index |-> child.index,
     ext_resource_i |-> child.ext_resource_i,
     anims |-> [k \in DOMAIN child.animations |->
                   [name |-> subs[child.animations[k][2]].resource_name,
                    i |-> child.animations[k][1]]]]

\* str(tree): header, external resources, sub-resources sorted by name, the
\* root with its script line, the children
Document(exts, subs, chs, steps, script) ==
    LET order == SortedByName(subs)
    IN  [load_steps |-> steps,
         ext |-> exts,
         sub |-> [k \in DOMAIN order |-> subs[order[k]]],
         script |-> (script # NoScript),
         children |-> [k \in DOMAIN chs |-> ChildBlock(chs[k], subs)]]

\* ------------------------------------------------------------ the program
\* main has found project.godot and build_tree has constructed the MainNode:
\* MainNode(name=args['-n'], node_type=args['-t'], script=args['-s'])
Init ==
    /\ args \in ArgsSet
    /\ pc = "spine"
    /\ file_i = 0
    /\ ext_resources = InitExtResources(args.s)
    /\ sub_resources = <<>>
    /\ children = <<>>
    /\ animation_player = 0
    /\ load_steps = 0
    /\ out = <<>>
    /\ second = FALSE
    /\ prevOut = <<>>

\* build_tree: where it goes on after the loop over args['<json>']
AfterSpine(n) ==
    IF n < Len(args.json) THEN "spine"
    ELSE IF args.e # "none" THEN "extra" ELSE "player"

\* main_node.add_spine_child(json_file, i).  open() raises before anything
\* is added; the KeyErrors come after the external resource and the child
\* (and, for 'skins', the animations) were added
add_spine_child ==
    /\ pc = "spine"
    /\ file_i < Len(args.json)
    /\ LET f == JsonFile(file_i + 1)
           node_name == SpineNodeName(f.path)
           exts == add_ext_resource(ext_resources, f.path, "SpineResource")
           child == SpineNode(node_name, file_i, SpineExtResourceI(exts))
           plays == AddPlays(sub_resources, f.animations, node_name)
       IN  IF ~f.exists
           THEN /\ pc' = "aborted"
                /\ UNCHANGED <<file_i, ext_resources, sub_resources, children>>
           ELSE /\ ext_resources' = exts
                /\ children' = Append(children, child)
                /\ IF RaisesNoAnimations(f)
                   THEN /\ pc' = "aborted"
                        /\ UNCHANGED <<file_i, sub_resources>>
                   ELSE IF RaisesNoSkins(f)
                   THEN /\ pc' = "aborted"
                        /\ sub_resources' = plays
                        /\ UNCHANGED file_i
                   ELSE /\ sub_resources' = AddSkins(plays, f.skins, node_name)
                        /\ file_i' = file_i + 1
                        /\ pc' = AfterSpine(file_i + 1)
    /\ UNCHANGED <<args, animation_player, load_steps, out, second, prevOut>>

\* main_node.add_extra_file(args['-e']): open() raises on a missing file
add_extra_file ==
    /\ pc = "extra"
    /\ IF args.e = "missing"
       THEN /\ pc' = "aborted"
            /\ UNCHANGED children
       ELSE /\ children' = Append(children, ExtraNode(ExtraIndex(children)))
            /\ pc' = "player"
    /\ UNCHANGED <<args, file_i, ext_resources, sub_resources,
                   animation_player, load_steps, out, second, prevOut>>

\* MainNode.add_animation_player: the assert holds on the root (parent is
\* None); self.animation_player is the node just made
AppendAnimationPlayer ==
    /\ children' = Append(children, AnimationPlayerNode(PlayerIndex(children)))
    /\ animation_player' = Len(children) + 1

\* main_node.add_animation_player() of build_tree
add_animation_player ==
    /\ pc = "player"
    /\ AppendAnimationPlayer
    /\ pc' = "fix"
    /\ UNCHANGED <<args, file_i, ext_resources, sub_resources, load_steps,
                   out, second, prevOut>>

\* main_node.fix_spine_sub_resources(): every skin gets a track for every
\* other node with skins, then the player's list is filled
fix_spine_sub_resources ==
    /\ pc = "fix"
    /\ \E order \in IterationOrders(NodesWithSkins(sub_resources)) :
          sub_resources' =
              [p \in DOMAIN sub_resources |->
                  IF sub_resources[p].type = "skin"
                  THEN AddOtherTracks(sub_resources[p], order)
                  ELSE sub_resources[p]]
    /\ children' =
          [children EXCEPT ![animation_player].animations =
              @ \o PlayerEntries(sub_resources)]
    /\ pc' = "load_steps"
    /\ UNCHANGED <<args, file_i, ext_resources, animation_player, load_steps,
                   out, second, prevOut>>

\* main_node.set_load_steps(); build_tree returns
set_load_steps ==
    /\ pc = "load_steps"
    /\ load_steps' = LoadSteps(ext_resources, sub_resources)
    /\ pc' = "built"
    /\ UNCHANGED <<args, file_i, ext_resources, sub_resources, children,
                   animation_player, out, second, prevOut>>

\* print(str(tree)): __str__ numbers the resources, then the text is written
PrintTree ==
    /\ pc = "built"
    /\ ext_resources' = NumberedExtResources(ext_resources)
    /\ sub_resources' = NumberedSubResources(sub_resources)
    /\ out' = <<Document(ext_resources', sub_resources', children,
                         load_steps, args.s)>>
    /\ pc' = "printed"
    /\ UNCHANGED <<args, file_i, children, animation_player, load_steps,
                   second, prevOut>>

\* the script is run once more on the same command line: a new process and
\* a new tree; the first output is kept for comparison
RunAgain ==
    /\ pc = "printed"
    /\ ~second
    /\ second' = TRUE
    /\ prevOut' = out
    /\ out' = <<>>
    /\ pc' = "spine"
    /\ file_i' = 0
    /\ ext_resources' = InitExtResources(args.s)
    /\ sub_resources' = <<>>
    /\ children' = <<>>
    /\ animation_player' = 0
    /\ load_steps' = 0
    /\ UNCHANGED args

Next ==
    \/ add_spine_child
    \/ add_extra_file
    \/ add_animation_player
    \/ fix_spine_sub_resources
    \/ set_load_steps
    \/ PrintTree
    \/ RunAgain

Spec == Init /\ [][Next]_vars

\* A caller other than build_tree calls add_animation_player on a root that
\* already has its player
PlayerCount(chs) ==
    Cardinality({ k \in DOMAIN chs : chs[k].type = "AnimationPlayer" })

CallAddAnimationPlayer ==
    /\ pc \in {"fix", "load_steps", "built"}
    /\ PlayerCount(children) < MaxPlayers
    /\ AppendAnimationPlayer
    /\ UNCHANGED <<args, pc, file_i, ext_resources, sub_resources, load_steps,
                   out, second, prevOut>>

NextApi ==
    \/ Next
    \/ CallAddAnimationPlayer

SpecApi == Init /\ [][NextApi]_vars

\* ------------------------------------------------------------- properties
NFiles == Len(args.json)

HasScript == args.s # NoScript

BadFile(f) == ~f.exists \/ ~f.has_animations \/ ~f.has_skins

\* the document main wrote, once it wrote one
Doc == out[1]

SourceBlocks == { k \in DOMAIN Doc.children : Doc.children[k].type = "Spine" }

ScriptFirst ==
    /\ HasScript => \E k \in DOMAIN Doc.ext : Doc.ext[k].resource_type = "Script"
    /\ \A k \in DOMAIN Doc.ext :
          Doc.ext[k].resource_type = "Script" => Doc.ext[k].i = 1 /\ k = 1

\* C1, as stated: the document of N valid files has N source-node blocks and
\* N+1 external-resource blocks without a script, N+2 with one, the script's
\* block carrying id 1.
C1_Original ==
    pc = "printed" =>
        /\ Cardinality(SourceBlocks) = NFiles
        /\ Len(Doc.ext) = NFiles + (IF HasScript THEN 2 ELSE 1)
        /\ ScriptFirst

\* C1, amended: the document of N valid files has N source-node blocks and
\* N external-resource blocks without a script, N+1 with one, the script's
\* block being the first and carrying id 1.
C1_ResourceCounts ==
    pc = "printed" =>
        /\ Cardinality(SourceBlocks) = NFiles
        /\ Len(Doc.ext) = NFiles + (IF HasScript THEN 1 ELSE 0)
        /\ ScriptFirst

C1_Witness ==
    /\ pc = "printed"
    /\ HasScript
    /\ NFiles >= 2
    /\ \E a, b \in 1..NFiles : a # b /\ JsonFile(a).path = JsonFile(b).path

\* C2: once set, load_steps is the number of external resources plus the
\* number of sub-resources plus 1, and it still is when the document is
\* rendered: the header of the document counts the blocks of the document.
C2_LoadSteps ==
    /\ load_steps # 0 =>
          load_steps = Len(ext_resources) + Len(sub_resources) + 1
    /\ out # <<>> =>
          Doc.load_steps = Len(Doc.ext) + Len(Doc.sub) + 1

C2_Witness ==
    /\ pc = "printed"
    /\ HasScript
    /\ args.e = "readable"
    /\ Len(sub_resources) >= 3
    /\ Doc.load_steps = load_steps

\* C3, as stated: in the rendered document the sub-resource ids are exactly
\* 1..K, no id is used twice, and a smaller id means a strictly smaller
\* display name.
C3_StrictlyAscendingIds ==
    pc = "printed" =>
        /\ { sub_resources[p].i : p \in DOMAIN sub_resources }
              = 1..Len(sub_resources)
        /\ \A a, b \in DOMAIN sub_resources :
              /\ a # b => sub_resources[a].i # sub_resources[b].i
              /\ sub_resources[a].i < sub_resources[b].i =>
                    StrLess(sub_resources[a].resource_name,
                            sub_resources[b].resource_name)

\* the source nodes whose file declares at least one skin
SkinBearingNodes == { k \in 1..NFiles : JsonFile(k).skins # <<>> }

\* C4, as stated: after fix_spine_sub_resources on a tree with two or more
\* source nodes that declare skins, every skin-change animation has as many
\* tracks as there are source nodes declaring a skin, and no two of its
\* tracks address the same node.
C4_TrackPerSkinNode ==
    (pc \in {"load_steps", "built", "printed"}
        /\ Cardinality(SkinBearingNodes) >= 2) =>
        \A p \in DOMAIN sub_resources :
            sub_resources[p].type = "skin" =>
                LET tr == sub_resources[p].tracks
                IN  /\ Len(tr) = Cardinality(SkinBearingNodes)
                    /\ tr[1].node_name = sub_resources[p].node_name
                    /\ \A a, b \in DOMAIN tr :
                          a # b => tr[a].node_name # tr[b].node_name

\* C5, as stated: a second run on the same command line writes the same
\* document as the first.
C5_SameOutput ==
    (second /\ pc = "printed") => out = prevOut

\* C6, as stated: a root never has more than one animation player, a second
\* add_animation_player being rejected.
C6_OnePlayer ==
    PlayerCount(children) <= 1

\* the positions of the files add_spine_child raises on
BadFiles == { k \in 1..NFiles : BadFile(JsonFile(k)) }

FirstBadFile == CHOOSE k \in BadFiles : \A j \in BadFiles : k <= j

\* C7: when an input file cannot be opened or lacks the animations or the
\* skins key, the build stops at the first such file and nothing is ever
\* written, whatever was already added to the tree.
C7_NoOutputOnBadInput ==
    BadFiles # {} =>
        /\ out = <<>>
        /\ prevOut = <<>>
        /\ pc \in {"spine", "aborted"}
        /\ pc = "spine" => file_i < FirstBadFile
        /\ pc = "aborted" => file_i + 1 = FirstBadFile

C7_Witness ==
    /\ pc = "aborted"
    /\ file_i >= 1
    /\ file_i < NFiles
    /\ JsonFile(file_i + 1).exists
    /\ JsonFile(file_i + 1).has_animations
    /\ ~JsonFile(file_i + 1).has_skins
    /\ Len(children) = file_i + 1
    /\ sub_resources # <<>>
    /\ out = <<>>

\* self.animation_player
Player == children[animation_player]

\* C8: in the printed document the id the player recorded for a
\* sub-resource is the id of that sub-resource's block, every anims line
\* names the resource_name of exactly the block with its id, and the player
\* lists every sub-resource exactly once.
C8_PlayerIdsMatchBlocks ==
    pc = "printed" =>
        /\ Len(Player.animations) = Len(sub_resources)
        /\ \A p \in DOMAIN sub_resources :
              Cardinality({ k \in DOMAIN Player.animations :
                              Player.animations[k][2] = p }) = 1
        /\ \A k \in DOMAIN Player.animations :
              sub_resources[Player.animations[k][2]].i = Player.animations[k][1]
        /\ \A c \in DOMAIN Doc.children :
              \A k \in DOMAIN Doc.children[c].anims :
                  LET line == Doc.children[c].anims[k]
                      blocks == { b \in DOMAIN Doc.sub : Doc.sub[b].i = line.i }
                  IN  /\ Cardinality(blocks) = 1
                      /\ \A b \in blocks : Doc.sub[b].resource_name = line.name

C8_Witness ==
    /\ pc = "printed"
    /\ \E a, b \in DOMAIN sub_resources :
          /\ a # b
          /\ sub_resources[a].resource_name = sub_resources[b].resource_name
    /\ \E a, b \in DOMAIN sub_resources :
          /\ a < b
          /\ sub_resources[a].i > sub_resources[b].i

\* C9: after build_tree every child's index is its 0-based position among
\* the children: the source nodes come first in the order of the files, the
\* extra child follows them, the animation player is last.
C9_SiblingIndices ==
    pc \in {"built", "printed"} =>
        /\ Len(children) = NFiles + (IF args.e # "none" THEN 2 ELSE 1)
        /\ \A k \in DOMAIN children : children[k].index = k - 1
        /\ \A k \in 1..NFiles : children[k].type = "Spine"
        /\ args.e # "none" => children[NFiles + 1].type = "Extra"
        /\ children[Len(children)].type = "AnimationPlayer"
        /\ animation_player = Len(children)

C9_Witness ==
    /\ pc = "built"
    /\ NFiles >= 2
    /\ args.e = "readable"
    /\ children[NFiles + 1].index = NFiles
    /\ children[NFiles + 2].index = NFiles + 1

\* C10: in the printed document every source node references the block of
\* its own file: the k-th file (from 0) is referenced as k+1 without a
\* script, k+2 with one, and no two external-resource blocks share an id.
C10_ExtResourceRefs ==
    pc = "printed" =>
        /\ \A k \in 1..NFiles :
              LET r == children[k].ext_resource_i
              IN  /\ r = (k - 1) + (IF HasScript THEN 2 ELSE 1)
                  /\ r \in DOMAIN Doc.ext
                  /\ Doc.children[k].ext_resource_i = r
                  /\ \A b \in DOMAIN Doc.ext :
                        Doc.ext[b].i = r =>
                            /\ b = r
                            /\ Doc.ext[b].resource_path = JsonFile(k).path
                            /\ Doc.ext[b].resource_type = "SpineResource"
                  /\ \E b \in DOMAIN Doc.ext : Doc.ext[b].i = r
        /\ \A a, b \in DOMAIN Doc.ext : a # b => Doc.ext[a].i # Doc.ext[b].i

C10_Witness ==
    /\ pc = "printed"
    /\ HasScript
    /\ NFiles >= 2
    /\ children[NFiles].ext_resource_i = NFiles + 1

====
